---- MODULE Spec2Model ----
(***************************************************************************)
(* A model of stitch_videos.py: one run of main(), from the parsed command *)
(* line to the process exit code.  Every subprocess the script starts is    *)
(* one step; the concatenation child runs concurrently with the parent's    *)
(* stderr reading loop and is modelled with its two bounded pipes.          *)
(*                                                                          *)
(* Optional values (Python's None) are sequences: <<>> is None and <<v>>    *)
(* is the value v.  File names in the input tree are the integers 1..n,     *)
(* ordered as their path strings are.  A user interrupt (KeyboardInterrupt) *)
(* is not part of the model.                                                *)
(***************************************************************************)
EXTENDS Integers, Sequences, FiniteSets, TLC

\* ------------------------------------------------------------------ bounds

\* Largest number of files in the input directory.
MaxFiles == 3
\* Number of writes a pipe accepts while nobody reads it (the OS pipe buffer).
PipeCap == 2
\* Largest number of lines the concatenation child writes to stderr.
MaxErr == 2
\* Largest width and height of a --resolution the command line supplies.
MaxW == 5
MaxH == 4

\* The child may write more to stdout than the pipe buffer holds.
MaxOut == PipeCap + 1

\* ------------------------------------------------------------ Python values

None == <<>>
Some(v) == <<v>>
IsNone(x) == x = <<>>
Val(x) == x[1]

Min(a, b) == IF a < b THEN a ELSE b

\* s[a:b] of Python for a >= 0: a negative b counts from the end, and both
\* ends are clamped to the sequence.
PySliceEnd(b, n) == IF b < 0 THEN (IF b + n < 0 THEN 0 ELSE b + n) ELSE Min(b, n)
PySlice(s, a, b) == SubSeq(s, Min(a, Len(s)) + 1, PySliceEnd(b, Len(s)))

\* s[a:]
PyTail(s, a) == SubSeq(s, Min(a, Len(s)) + 1, Len(s))

\* int(x / 3) of Python for an integer x: the quotient truncated towards zero.
IntDiv3(x) == IF x >= 0 THEN x \div 3 ELSE 0 - ((0 - x) \div 3)

\* round(x / 3) for an integer x (x / 3 is never half way between integers).
Round3(x) == (2 * x + 3) \div 6

\* ------------------------------------------------------------- file names

\* An output file name: a literal, or the pieces of the auto-generated name
\* 'stitched-video' [_position-P] [_number-N] '.mp4'.
Name(lit) == [lit |-> lit, position |-> None, number |-> None]
DefaultOutput == Name("stitched_video.mp4")
AutoName(position, number) ==
    [lit |-> "stitched-video", position |-> position, number |-> number]

\* ------------------------------------------------------------------ state

VARIABLES
    argv,               \* the command line: dir, output, resolution, no_check,
                        \* numbered, position, number
    fs,                 \* the input tree: file name -> [ext, readable, encodable]
    env,                \* [ffmpeg, ffprobe: installed; out, err: what the
                        \*  concatenation child may write at most]
    pc,                 \* position of the script
    output_file,        \* args.output after main's renaming
    res,                \* None or <<res_w, res_h>> as main resolved them
    video_files,        \* stitch_videos: the discovered, then selected sequence
    start_index,
    incompatible_files,
    probe_i,            \* index of the compatibility loop
    processed_files,
    idx,                \* index of the normalization loop (1-based)
    temp_dir,           \* files in the scratch directory
    manifest,           \* None, or the lines create_file_list wrote
    calls,              \* every subprocess started, in order
    printed,            \* what the script printed, in order
    result,             \* None, or the value stitch_videos returned
    crash,              \* None, or the exception that left the script uncaught
    exit_code,          \* None, or the exit code of the process
    proc,               \* the concatenation child: state, rc, what it still writes
    stdout_pipe,        \* number of chunks buffered in the child's stdout pipe
    stderr_pipe,        \* lines buffered in the child's stderr pipe
    stderr_written,     \* every line the child wrote to stderr, in order
    out_files           \* output files the run created

vars == <<argv, fs, env, pc, output_file, res, video_files, start_index,
          incompatible_files, probe_i, processed_files, idx, temp_dir, manifest,
          calls, printed, result, crash, exit_code, proc, stdout_pipe,
          stderr_pipe, stderr_written, out_files>>

mainVars == <<output_file, res>>
stitchVars == <<video_files, start_index, incompatible_files, probe_i,
                processed_files, idx, temp_dir, manifest>>
childVars == <<proc, stdout_pipe, stderr_pipe, stderr_written, out_files>>
inputVars == <<argv, fs, env>>

\* ---------------------------------------------------------- file discovery

Extensions == <<"mp4", "avi", "mov", "mkv", "flv", "wmv", "m4v", "webm">>

\* Glob with the extension test lost: every file matches every pattern.
GlobAnyExtension(dir, ext) == DOMAIN dir

\* glob.glob(directory/**/ext): the matching files, in no particular order.
Glob(dir, ext) == {f \in DOMAIN dir : dir[f].ext = ext}

\* list.sort(): ascending.
RECURSIVE SortAsc(_)
SortAsc(S) ==
    IF S = {} THEN <<>>
    ELSE LET m == CHOOSE x \in S : \A y \in S : x <= y
         IN <<m>> \o SortAsc(S \ {m})

find_video_files(dir) ==
    SortAsc(UNION {Glob(dir, Extensions[i]) : i \in 1..Len(Extensions)})

\* ------------------------------------------------------------ subprocesses

VersionProbe == [tool |-> "ffmpeg", mode |-> "version"]
Inspect(f) == [tool |-> "ffprobe", mode |-> "inspect", src |-> f]
Transcode(src, dst, vf) ==
    [tool |-> "ffmpeg", mode |-> "transcode", src |-> src, dst |-> dst, vf |-> vf]
Concat(list, out) ==
    [tool |-> "ffmpeg", mode |-> "concat", list |-> list, out |-> out]

NoProc == [state |-> "none", rc |-> 0, outLeft |-> 0, errLeft |-> 0]

\* ------------------------------------------------------------------- Init

DirArgs == {"absent", "invalid", "valid"}

\* The input trees: files 1..n, each a video (probed and transcoded with
\* success or not) or a file with another extension.
FileKinds ==
    [ext : {"mp4"}, readable : BOOLEAN, encodable : BOOLEAN]
        \cup {[ext |-> "txt", readable |-> FALSE, encodable |-> FALSE]}
Trees == UNION {[1..n -> FileKinds] : n \in 0..MaxFiles}
GoodVideo == [ext |-> "mp4", readable |-> TRUE, encodable |-> TRUE]
BadVideo == [ext |-> "mp4", readable |-> FALSE, encodable |-> FALSE]
\* Trees of videos only: all good, or the first one bad.
PlainTrees ==
    UNION {{[f \in 1..n |-> GoodVideo],
            [f \in 1..n |-> IF f = 1 THEN BadVideo ELSE GoodVideo],
            [f \in 1..n |-> BadVideo]} : n \in 0..MaxFiles}

\* A --resolution string split at 'x': each part is Some(n) when int() reads
\* it as n, and None when int() raises ValueError.  The default is 1280x960.
DefaultResolution == <<Some(1280), Some(960)>>

InitRest ==
    /\ pc = "main"
    /\ output_file = DefaultOutput
    /\ res = None
    /\ video_files = <<>>
    /\ start_index = 0
    /\ incompatible_files = <<>>
    /\ probe_i = 0
    /\ processed_files = <<>>
    /\ idx = 1
    /\ temp_dir = {}
    /\ manifest = None
    /\ calls = <<>>
    /\ printed = <<>>
    /\ result = None
    /\ crash = None
    /\ exit_code = None
    /\ proc = NoProc
    /\ stdout_pipe = 0
    /\ stderr_pipe = <<>>
    /\ stderr_written = <<>>
    /\ out_files = {}

\* The pipeline family: every tree, every tool installed or not, the child
\* writing little; the whole discovered sequence.
Init ==
    /\ argv \in [dir : DirArgs, output : {None}, resolution : {DefaultResolution},
                 no_check : BOOLEAN, numbered : {FALSE},
                 position : {None}, number : {None}]
    /\ fs \in Trees
    /\ env \in [ffmpeg : BOOLEAN, ffprobe : BOOLEAN, out : {1}, err : {1}]
    /\ InitRest

\* The concatenation family: trees of videos, the tools installed, the child
\* writing up to MaxOut chunks to stdout and MaxErr lines to stderr.
InitConcat ==
    /\ argv \in [dir : {"valid"}, output : {None}, resolution : {DefaultResolution},
                 no_check : BOOLEAN, numbered : {FALSE},
                 position : {None}, number : {None}]
    /\ fs \in PlainTrees
    /\ env \in [ffmpeg : {TRUE}, ffprobe : {TRUE}, out : {MaxOut}, err : {MaxErr}]
    /\ InitRest

\* The selection family: every position and number around the range, over
\* trees of videos; the tools installed, the child writing little.
Positions == {None} \cup {Some(p) : p \in (0 - 1)..(MaxFiles + 1)}
Numbers == {None} \cup {Some(n) : n \in (0 - 1)..(MaxFiles + 1)}

InitSel ==
    /\ argv \in [dir : {"valid"}, output : {None}, resolution : {DefaultResolution},
                 no_check : BOOLEAN, numbered : {TRUE},
                 position : Positions, number : Numbers]
    /\ fs \in PlainTrees
    /\ env \in [ffmpeg : {TRUE}, ffprobe : BOOLEAN, out : {1}, err : {1}]
    /\ InitRest

\* The command-line family: every resolution string and output option, with
\* and without a position and a number, over one tree of videos.
Resolutions ==
    {DefaultResolution}
        \cup {<<Some(w), Some(h)>> : w \in 1..MaxW, h \in 1..MaxH}
        \cup {<<None, Some(3)>>, <<Some(4), None>>, <<Some(4)>>,
              <<Some(4), Some(3), Some(2)>>}
Outputs == {None, Some(DefaultOutput), Some(Name("my.mp4"))}

InitCli ==
    /\ argv \in [dir : DirArgs, output : Outputs, resolution : Resolutions,
                 no_check : {FALSE}, numbered : BOOLEAN,
                 position : {None, Some(2)}, number : {None, Some(2)}]
    /\ fs \in {[f \in 1..MaxFiles |-> GoodVideo]}
    /\ env \in [ffmpeg : {TRUE}, ffprobe : {TRUE}, out : {1}, err : {1}]
    /\ InitRest

\* ------------------------------------------------------------------- main

\* The process ends with an uncaught exception: Python prints the traceback
\* and exits with code 1.
Raise(exc, at) ==
    /\ crash' = Some([exc |-> exc, at |-> at])
    /\ exit_code' = Some(1)
    /\ pc' = "exited"

\* sys.exit(1) after message msg.
Exit1(msg) ==
    /\ printed' = Append(printed, msg)
    /\ exit_code' = Some(1)
    /\ pc' = "exited"

\* main, lines 289-299: the input directory must be given and be a directory.
MainCheckDir ==
    /\ pc = "main"
    /\ IF argv.dir = "absent" THEN Exit1("no_directory")
       ELSE IF argv.dir = "invalid" THEN Exit1("not_a_directory")
       ELSE /\ pc' = "resolution"
            /\ UNCHANGED <<printed, exit_code>>
    /\ UNCHANGED <<inputVars, mainVars, stitchVars, childVars, calls, result, crash>>

\* A part of the resolution string that int() accepts.
IsInt(p) == ~IsNone(p)

\* The 4:3 width main derives from a height: int(res_h * 4 / 3).
AdjustWidth(res_h) == IntDiv3(res_h * 4)

\* main, lines 306-316: resolution.lower().split('x'), the first two parts as
\* integers; a width that is not 4:3 of the height is replaced.
MainParseResolution ==
    /\ pc = "resolution"
    /\ LET parts == argv.resolution
       IN IF Len(parts) < 2 \/ ~IsInt(parts[1]) \/ ~IsInt(parts[2])
          THEN /\ Exit1("invalid_resolution")
               /\ UNCHANGED res
          ELSE LET res_w == Val(parts[1])
                   res_h == Val(parts[2])
               IN IF res_w * 3 # res_h * 4
                  THEN /\ res' = Some(<<AdjustWidth(res_h), res_h>>)
                       /\ printed' = Append(printed, "not_4_3")
                       /\ pc' = "outname"
                       /\ UNCHANGED exit_code
                  ELSE /\ res' = Some(<<res_w, res_h>>)
                       /\ pc' = "outname"
                       /\ UNCHANGED <<printed, exit_code>>
    /\ UNCHANGED <<inputVars, output_file, stitchVars, childVars, calls, result, crash>>

\* argparse: args.output is the default when -o is not given (line 264).
ParsedOutput(a) == IF IsNone(a.output) THEN DefaultOutput ELSE Val(a.output)

\* main, line 319: the test that decides the renaming.
UsesDefaultOutput(a) == ParsedOutput(a) = DefaultOutput

\* main, lines 318-340: the output name, then the call of stitch_videos.
MainOutputName ==
    /\ pc = "outname"
    /\ IF UsesDefaultOutput(argv) /\ (~IsNone(argv.position) \/ ~IsNone(argv.number))
       THEN /\ output_file' = AutoName(argv.position, argv.number)
            /\ printed' = Append(printed, "auto_output")
       ELSE /\ output_file' = ParsedOutput(argv)
            /\ UNCHANGED printed
    /\ pc' = "check_ffmpeg"
    /\ UNCHANGED <<inputVars, res, stitchVars, childVars, calls, result, crash, exit_code>>

\* main, lines 342-343: the exit code from stitch_videos' result.
MainExit ==
    /\ pc = "returned"
    /\ exit_code' = IF Val(result) THEN Some(0) ELSE Some(1)
    /\ pc' = "exited"
    /\ UNCHANGED <<inputVars, mainVars, stitchVars, childVars, calls, printed, result, crash>>

\* ---------------------------------------------------------- stitch_videos

\* return False / return True after message msg.
Return(v, msg) ==
    /\ result' = Some(v)
    /\ printed' = Append(printed, msg)
    /\ pc' = "returned"

\* check_ffmpeg, lines 31-40, and its use, lines 85-94.
check_ffmpeg(e) == e.ffmpeg

CheckFfmpeg ==
    /\ pc = "check_ffmpeg"
    /\ calls' = Append(calls, VersionProbe)
    /\ IF ~check_ffmpeg(env) THEN Return(FALSE, "no_ffmpeg")
       ELSE /\ pc' = "discover"
            /\ UNCHANGED <<result, printed>>
    /\ UNCHANGED <<inputVars, mainVars, stitchVars, childVars, crash, exit_code>>

\* Lines 96-104.
Discover ==
    /\ pc = "discover"
    /\ video_files' = find_video_files(fs)
    /\ IF video_files' = <<>> THEN Return(FALSE, "no_files")
       ELSE /\ pc' = "select"
            /\ UNCHANGED <<result, printed>>
    /\ UNCHANGED <<inputVars, mainVars, start_index, incompatible_files, probe_i,
                   processed_files, idx, temp_dir, manifest, childVars, calls,
                   crash, exit_code>>

\* PositionOutOfRange off by one at the upper end.
PositionOutOfRangeLax(position, n) == position < 1 \/ position > n + 1

\* Line 111.
PositionOutOfRange(position, n) == position < 1 \/ position > n

\* Lines 118-122.
SelectSlice(files, start, number) ==
    IF IsNone(number) THEN PyTail(files, start)
    ELSE PySlice(files, start, Min(start + Val(number), Len(files)))

\* Whether a position/number filter applies (lines 116 and 161).
Filtered(a) == ~IsNone(a.position) \/ ~IsNone(a.number)

\* Lines 106-130: the selection.  The message of line 124 adds position to a
\* length, which raises TypeError when position is None.  main always passes
\* a target_resolution, so the default of lines 128-129 is never taken.
Select ==
    /\ pc = "select"
    /\ LET position == argv.position
           number == argv.number
           start == IF IsNone(position) THEN 0 ELSE Val(position) - 1
       IN IF ~IsNone(position) /\ PositionOutOfRange(Val(position), Len(video_files))
          THEN /\ Return(FALSE, "out_of_range")
               /\ UNCHANGED <<video_files, start_index, crash, exit_code>>
          ELSE IF Filtered(argv)
          THEN /\ start_index' = start
               /\ video_files' = SelectSlice(video_files, start, number)
               /\ IF IsNone(position)
                  THEN /\ Raise("TypeError", "select")
                       /\ UNCHANGED <<result, printed>>
                  ELSE /\ printed' = Append(printed, "selected")
                       /\ pc' = IF argv.no_check THEN "encode" ELSE "probe"
                       /\ UNCHANGED <<result, crash, exit_code>>
          ELSE /\ pc' = IF argv.no_check THEN "encode" ELSE "probe"
               /\ UNCHANGED <<video_files, start_index, result, printed, crash,
                              exit_code>>
    /\ UNCHANGED <<inputVars, mainVars, incompatible_files, probe_i, processed_files,
                   idx, temp_dir, manifest, childVars, calls>>

\* get_video_info, lines 55-65: True when ffprobe exits zero, False when it
\* exits non-zero (CalledProcessError, the only exception caught); ffprobe
\* missing raises FileNotFoundError out of the function.
get_video_info(e, dir, f) ==
    IF ~e.ffprobe THEN "FileNotFoundError"
    ELSE IF dir[f].readable THEN "True" ELSE "False"

\* Line 136: the sample is the first 10 files.
SampleSize == 10

\* Lines 133-143: one iteration of the compatibility loop, or its end.
Probe ==
    /\ pc = "probe"
    /\ IF probe_i < Min(SampleSize, Len(video_files))
       THEN LET f == video_files[probe_i + 1]
                info == get_video_info(env, fs, f)
            IN /\ calls' = Append(calls, Inspect(f))
               /\ IF info = "FileNotFoundError"
                  THEN /\ Raise("FileNotFoundError", "get_video_info")
                       /\ UNCHANGED <<incompatible_files, probe_i>>
                  ELSE /\ incompatible_files' =
                              IF info = "False" THEN Append(incompatible_files, f)
                              ELSE incompatible_files
                       /\ probe_i' = probe_i + 1
                       /\ UNCHANGED <<pc, crash, exit_code>>
               /\ UNCHANGED printed
       ELSE /\ printed' = IF incompatible_files # <<>>
                          THEN Append(printed, "incompatible_warning") ELSE printed
            /\ pc' = "encode"
            /\ UNCHANGED <<incompatible_files, probe_i, calls, crash, exit_code>>
    /\ UNCHANGED <<inputVars, mainVars, video_files, start_index, processed_files,
                   idx, temp_dir, manifest, childVars, result>>

\* Lines 158 and 44: files of the scratch directory.
Processed(i) == [kind |-> "processed", n |-> i]
ListFile == [kind |-> "video_list", n |-> 0]

\* Line 161.
DisplayNumber(a, start, i) == IF Filtered(a) THEN start + i ELSE i

\* Lines 164-176: the filter graph for target <<w, h>>.
VfFilter(target, a, number) ==
    <<[f |-> "scale", w |-> 0 - 1, h |-> target[2]],
      [f |-> "crop", w |-> target[1], h |-> target[2]],
      [f |-> "pad", w |-> target[1], h |-> target[2]]>>
    \o (IF a.numbered THEN <<[f |-> "drawtext", w |-> number, h |-> 0]>> ELSE <<>>)

\* RunSucceeds without check=True: a non-zero exit goes unnoticed.
RunSucceedsUnchecked(dir, src) == TRUE

\* subprocess.run(cmd, check=True), lines 188-192: whether the transcode of
\* src exits zero; a non-zero exit raises CalledProcessError, which is caught.
RunSucceeds(dir, src) == dir[src].encodable

\* Lines 157-194: one iteration of the normalization loop.
Encode ==
    /\ pc = "encode"
    /\ idx <= Len(video_files)
    /\ LET src == video_files[idx]
           dst == Processed(idx)
           vf == VfFilter(Val(res), argv, DisplayNumber(argv, start_index, idx))
       IN /\ calls' = Append(calls, Transcode(src, dst, vf))
          /\ IF RunSucceeds(fs, src)
             THEN /\ processed_files' = Append(processed_files, dst)
                  /\ temp_dir' = temp_dir \cup {dst}
                  /\ UNCHANGED printed
             ELSE /\ printed' = Append(printed, "failed_to_process")
                  /\ UNCHANGED <<processed_files, temp_dir>>
    /\ idx' = idx + 1
    /\ UNCHANGED <<inputVars, mainVars, video_files, start_index, incompatible_files,
                   probe_i, manifest, childVars, pc, result, crash, exit_code>>

\* create_file_list, lines 42-53: one 'file' line per clip, in order.
create_file_list(files) ==
    [i \in 1..Len(files) |-> [directive |-> "file", path |-> files[i]]]

\* NothingProcessed with the test of line 198 lost.
NothingProcessedIgnored(files) == FALSE

\* Line 198.
NothingProcessed(files) == files = <<>>

\* Lines 196-221: after the loop, abort when no clip was processed; else write
\* the manifest and start the concatenation child, which decides what it
\* will write and how it will exit.
StartConcat ==
    /\ pc = "encode"
    /\ idx > Len(video_files)
    /\ IF NothingProcessed(processed_files)
       THEN /\ Return(FALSE, "no_clips")
            /\ temp_dir' = {}
            /\ UNCHANGED <<manifest, calls, proc>>
       ELSE /\ manifest' = Some(create_file_list(processed_files))
            /\ temp_dir' = temp_dir \cup {ListFile}
            /\ calls' = Append(calls, Concat(ListFile, output_file))
            /\ \E rc \in {0, 1}, o \in 0..env.out, e \in 0..env.err :
                  proc' = [state |-> "running", rc |-> rc, outLeft |-> o, errLeft |-> e]
            /\ pc' = "concat"
            /\ UNCHANGED <<result, printed>>
    /\ UNCHANGED <<inputVars, mainVars, video_files, start_index, incompatible_files,
                   probe_i, processed_files, idx, stdout_pipe, stderr_pipe,
                   stderr_written, out_files, crash, exit_code>>

\* ------------------------------------------------- the concatenation child

\* The child writes a chunk to stdout; it blocks while the pipe is full.
\* Nothing in the script reads process.stdout (lines 216-231).
ChildWriteStdout ==
    /\ proc.state = "running"
    /\ proc.outLeft > 0
    /\ stdout_pipe < PipeCap
    /\ stdout_pipe' = stdout_pipe + 1
    /\ proc' = [proc EXCEPT !.outLeft = @ - 1]
    /\ UNCHANGED <<inputVars, mainVars, stitchVars, calls, printed, result, crash,
                   exit_code, pc, stderr_pipe, stderr_written, out_files>>

\* The lines the child writes to stderr: progress lines and other diagnostics.
StderrLines == {"frame=", "error"}

\* The child writes a line to stderr; it blocks while the pipe is full.
ChildWriteStderr ==
    /\ proc.state = "running"
    /\ proc.errLeft > 0
    /\ Len(stderr_pipe) < PipeCap
    /\ \E line \in StderrLines :
          /\ stderr_pipe' = Append(stderr_pipe, line)
          /\ stderr_written' = Append(stderr_written, line)
    /\ proc' = [proc EXCEPT !.errLeft = @ - 1]
    /\ UNCHANGED <<inputVars, mainVars, stitchVars, calls, printed, result, crash,
                   exit_code, pc, stdout_pipe, out_files>>

\* The child exits once all its writes are accepted; exit code zero leaves
\* the output file.
ChildExit ==
    /\ proc.state = "running"
    /\ proc.outLeft = 0
    /\ proc.errLeft = 0
    /\ proc' = [proc EXCEPT !.state = "exited"]
    /\ out_files' = IF proc.rc = 0 THEN out_files \cup {output_file} ELSE out_files
    /\ UNCHANGED <<inputVars, mainVars, stitchVars, calls, printed, result, crash,
                   exit_code, pc, stdout_pipe, stderr_pipe, stderr_written>>

\* Line 228: the lines the loop prints again.
IsProgress(line) == line = "frame="

\* Lines 224-229: one iteration of the reading loop.  readline() blocks until
\* a line is buffered or the stream ends (the child exited and the pipe is
\* empty), and then returns ''.
ReadLine ==
    /\ pc = "concat"
    /\ IF stderr_pipe # <<>>
       THEN LET output_line == Head(stderr_pipe)
            IN /\ stderr_pipe' = Tail(stderr_pipe)
               /\ printed' = IF IsProgress(output_line)
                             THEN Append(printed, output_line) ELSE printed
               /\ UNCHANGED pc
       ELSE /\ proc.state = "exited"
            /\ pc' = "wait"
            /\ UNCHANGED <<stderr_pipe, printed>>
    /\ UNCHANGED <<inputVars, mainVars, stitchVars, calls, result, crash, exit_code,
                   proc, stdout_pipe, stderr_written, out_files>>

\* process.stderr.read(), line 245: what is still buffered in the pipe.
ReadRest(pipe) == pipe

\* Lines 231-248: wait, then success on exit code zero and failure, with
\* error_output printed, otherwise.
Finish ==
    /\ pc = "wait"
    /\ proc.state = "exited"
    /\ IF proc.rc = 0
       THEN /\ printed' = Append(printed, "success")
            /\ result' = Some(TRUE)
            /\ UNCHANGED stderr_pipe
       ELSE /\ printed' = Append(printed, "concat_error") \o ReadRest(stderr_pipe)
            /\ stderr_pipe' = <<>>
            /\ result' = Some(FALSE)
    /\ temp_dir' = {}
    /\ pc' = "returned"
    /\ UNCHANGED <<inputVars, mainVars, video_files, start_index, incompatible_files,
                   probe_i, processed_files, idx, manifest, calls, crash, exit_code,
                   proc, stdout_pipe, stderr_written, out_files>>

Next ==
    \/ MainCheckDir
    \/ MainParseResolution
    \/ MainOutputName
    \/ MainExit
    \/ CheckFfmpeg
    \/ Discover
    \/ Select
    \/ Probe
    \/ Encode
    \/ StartConcat
    \/ ChildWriteStdout
    \/ ChildWriteStderr
    \/ ChildExit
    \/ ReadLine
    \/ Finish

Spec == Init /\ [][Next]_vars

ConcatSpec == InitConcat /\ [][Next]_vars

\* The OS schedules the child and the parent: a step that stays possible is
\* eventually taken.
FairSpec == ConcatSpec /\ WF_vars(Next)

SelSpec == InitSel /\ [][Next]_vars

CliSpec == InitCli /\ [][Next]_vars

\* ----------------------------------------------------------------- claims

Discovered == find_video_files(fs)
N == Len(video_files)
CallsOf(mode) == {i \in DOMAIN calls : calls[i].mode = mode}
Count(seq, x) == Cardinality({i \in DOMAIN seq : seq[i] = x})
Printed(msg) == \E i \in DOMAIN printed : printed[i] = msg
MainPcs == {"main", "resolution", "outname"}
EndPcs == {"returned", "exited"}

\* main called stitch_videos.
Called == argv.dir = "valid" /\ res # None /\ pc \notin MainPcs

\* stitch_videos got past discovery with at least one file.
PastDiscovery ==
    /\ Called
    /\ pc \notin {"check_ffmpeg", "discover"}
    /\ env.ffmpeg
    /\ Discovered # <<>>

\* The normalization loop ran over all N >= 1 selected clips.
NormalizationDone == PastDiscovery /\ pc # "select" /\ N >= 1 /\ idx > N

\* The selected clips whose transcode exits non-zero.
FailedClips == {i \in 1..N : ~fs[video_files[i]].encodable}

\* The scratch outputs of the clips from i on that succeeded, in order.
RECURSIVE SucceededFrom(_)
SucceededFrom(i) ==
    IF i > N THEN <<>>
    ELSE (IF i \in FailedClips THEN <<>> ELSE <<Processed(i)>>) \o SucceededFrom(i + 1)

ManifestPaths == [i \in DOMAIN Val(manifest) |-> Val(manifest)[i].path]

\* C1: when K < N of the N selected clips fail normalization, the manifest
\* lists exactly the N - K scratch outputs of the clips that succeeded, in the
\* order of the selected sequence, and the concatenation is started on it.
C1_ManifestOfSucceeded ==
    (NormalizationDone /\ Cardinality(FailedClips) < N /\ pc # "encode") =>
        /\ manifest # None
        /\ ManifestPaths = SucceededFrom(1)
        /\ Len(ManifestPaths) = N - Cardinality(FailedClips)
        /\ \A i \in DOMAIN Val(manifest) : Val(manifest)[i].directive = "file"
        /\ Cardinality(CallsOf("concat")) = 1
        /\ calls[Len(calls)] = Concat(ListFile, output_file)
        /\ ListFile \in temp_dir \/ pc \in EndPcs
        /\ proc.state # "none"

\* C1's case: three clips, the middle one fails, the concatenation runs.
C1_Witness ==
    /\ NormalizationDone
    /\ N = 3
    /\ FailedClips = {2}
    /\ pc = "concat"
    /\ ManifestPaths = <<Processed(1), Processed(3)>>

\* C2: when every one of the N >= 1 selected clips fails normalization, the
\* run returns failure before the concatenation step: no manifest, no
\* concatenation child, no output file.
C2_AllFailedAborts ==
    (NormalizationDone /\ Cardinality(FailedClips) = N) =>
        /\ manifest = None
        /\ ListFile \notin temp_dir
        /\ CallsOf("concat") = {}
        /\ proc.state = "none"
        /\ out_files = {}
        /\ pc # "encode" =>
               /\ pc \in EndPcs
               /\ result = Some(FALSE)
               /\ printed[Len(printed)] = "no_clips"
               /\ pc = "exited" => exit_code = Some(1)

\* C2's case: two or more clips, all failed, the process has exited.
C2_Witness ==
    /\ NormalizationDone
    /\ N >= 2
    /\ FailedClips = 1..N
    /\ Cardinality(CallsOf("transcode")) = N
    /\ pc = "exited"

\* A position was supplied that lies outside [1, length of the discovered
\* sequence].
OutOfRangeCase ==
    /\ PastDiscovery
    /\ pc # "select"
    /\ argv.position # None
    /\ (Val(argv.position) < 1 \/ Val(argv.position) > Len(Discovered))

\* C3: a position outside [1, N] makes stitch_videos fail with the
\* out-of-range message and nothing further runs: no inspection, no transcode,
\* no manifest, no concatenation; the process exits with code 1.
C3_OutOfRangeStops ==
    OutOfRangeCase =>
        /\ pc \in EndPcs
        /\ result = Some(FALSE)
        /\ printed[Len(printed)] = "out_of_range"
        /\ calls = <<VersionProbe>>
        /\ manifest = None
        /\ temp_dir = {}
        /\ proc.state = "none"
        /\ out_files = {}
        /\ crash = None
        /\ pc = "exited" => exit_code = Some(1)

\* C3's case: position N + 1 over two files, and position 0, after the exit.
C3_Witness ==
    /\ OutOfRangeCase
    /\ pc = "exited"
    /\ \/ Len(Discovered) = 2 /\ argv.position = Some(3)
       \/ argv.position = Some(0)

\* C4: for a position that is absent or in [1, N] and any count, the selection
\* succeeds and the clips passed on are the entries [start, end) of the
\* discovered sequence, start = position - 1 (0 when absent) and
\* end = min(start + count, N) (N when absent).
C4_SelectionIsIndexRange ==
    (/\ PastDiscovery
     /\ pc # "select"
     /\ (argv.position = None \/ ~(Val(argv.position) < 1
                                   \/ Val(argv.position) > Len(Discovered)))) =>
        LET start == IF argv.position = None THEN 0 ELSE Val(argv.position) - 1
            end == IF argv.number = None THEN Len(Discovered)
                   ELSE Min(start + Val(argv.number), Len(Discovered))
        IN /\ ~(crash # None /\ Val(crash).at = "select")
           /\ video_files = [i \in 1..(IF end > start THEN end - start ELSE 0)
                               |-> Discovered[start + i]]

\* C5: a resolution with width * 3 # height * 4 is resolved to the width
\* round(height * 4 / 3), and every resolved pair satisfies
\* width * 3 = height * 4.
C5_ResolvedIsFourByThree ==
    res # None =>
        LET w == Val(argv.resolution[1])
            h == Val(argv.resolution[2])
        IN /\ w * 3 # h * 4 => Val(res)[1] = Round3(h * 4)
           /\ Val(res)[1] * 3 = Val(res)[2] * 4

\* The input directory holds only files whose extension is none of the
\* recognised ones.
OnlyNonMatching ==
    /\ Called
    /\ \A f \in DOMAIN fs : \A i \in DOMAIN Extensions : fs[f].ext # Extensions[i]

\* C6 as stated: over a directory of non-matching files only, the run fails
\* with "no files found" having started no subprocess at all, the version
\* probe included.
C6_NoSubprocessAtAll ==
    (OnlyNonMatching /\ pc \in EndPcs) =>
        /\ calls = <<>>
        /\ result = Some(FALSE)
        /\ Printed("no_files")

\* C6 as amended: over a directory of non-matching files only, the only
\* subprocess the run ever starts is the one version probe of check_ffmpeg;
\* the run returns failure, and when the probe succeeds discovery is empty and
\* the failure is "no files found".
C6_OnlyVersionProbe ==
    OnlyNonMatching =>
        /\ \A i \in DOMAIN calls : calls[i] = VersionProbe
        /\ Len(calls) <= 1
        /\ Discovered = <<>>
        /\ video_files = <<>>
        /\ pc \in {"check_ffmpeg", "discover"} \cup EndPcs
        /\ pc \in EndPcs =>
               /\ calls = <<VersionProbe>>
               /\ result = Some(FALSE)
               /\ printed = <<IF env.ffmpeg THEN "no_files" ELSE "no_ffmpeg">>
               /\ pc = "exited" => exit_code = Some(1)

\* C6's case: a non-empty directory of non-matching files, ffmpeg installed,
\* the run failed with "no files found".
C6_Witness ==
    /\ OnlyNonMatching
    /\ DOMAIN fs # {}
    /\ env.ffmpeg
    /\ pc = "exited"
    /\ printed = <<"no_files">>
    /\ exit_code = Some(1)

\* C7: the output path is the auto-derived name exactly when position or
\* count is set and no output path was supplied; a supplied path is used
\* unchanged, and the default otherwise.
C7_ExplicitOutputKept ==
    Called =>
        LET expected == IF argv.output # None THEN Val(argv.output)
                        ELSE IF argv.position # None \/ argv.number # None
                             THEN AutoName(argv.position, argv.number)
                             ELSE DefaultOutput
        IN /\ output_file = expected
           /\ \A i \in CallsOf("concat") : calls[i].out = expected

\* The sources of the transcodes started so far, in order.
TranscodeSources ==
    LET t == CallsOf("transcode")
        first == Cardinality(CallsOf("version")) + Cardinality(CallsOf("inspect"))
    IN [i \in 1..Cardinality(t) |-> calls[first + i].src]

\* C8: with the compatibility check enabled, whatever the inspection calls
\* do (exit zero, exit non-zero, fail to launch), the sampler never aborts the
\* run, and the run normalizes the whole selected sequence.
C8_SamplerNeverAborts ==
    (PastDiscovery /\ ~argv.no_check /\ pc \notin {"select", "probe"}) =>
        /\ ~(crash # None /\ Val(crash).at = "get_video_info")
        /\ pc \in {"concat", "wait"} \cup EndPcs
               => TranscodeSources = video_files

\* C9: the run succeeds exactly when the concatenation child exits with code
\* zero, and on any other exit code every line the child wrote to stderr is
\* printed.
C9_ConcatDiagnosticsSurfaced ==
    (proc.state = "exited" /\ pc \in EndPcs) =>
        /\ Val(result) = (proc.rc = 0)
        /\ proc.rc # 0 =>
               \A line \in StderrLines :
                   Count(printed, line) >= Count(stderr_written, line)

\* C10: whatever the child writes to its two pipes, the reading loop and the
\* child never block each other: once started, the concatenation step ends
\* with a result.
C10_ConcatTerminates == (pc = "concat") ~> (pc \in {"wait"} \cup EndPcs)

====
